---- MODULE Spec2Model ----
(***************************************************************************)
(* Model of WorkflowsService.updateWorkflow                                *)
(* (packages/cli/src/workflows/workflows.services.ts): the sequence        *)
(* authorize, pre-deactivate, normalize, persist, tag sync, reload,        *)
(* reactivate, compensate, run against a workflow store, a tag association *)
(* table, a share table and the trigger runtime (ActiveWorkflowRunner).    *)
(* Every awaited collaborator call is one step and may fail.               *)
(***************************************************************************)
EXTENDS Integers, Sequences, FiniteSets, TLC

\* ------------------------------------------------------------------ bounds

\* Tag ids range over 1..MaxTag.
MaxTag == 2

\* A proposed settings object holds at most MaxSettingsKeys keys.
MaxSettingsKeys == 2

TagIds == 1..MaxTag

\* Request slots (each runs one updateWorkflow call at a time).
Reqs == {1, 2}

\* The users of the instance: one global owner and one member.
Users ==
  { [id |-> 1, globalRole |-> "owner"],
    [id |-> 2, globalRole |-> "member"] }

UserIds == {u.id : u \in Users}

\* The id of the workflow the calls are made on.
workflowId == "1"

\* Sequences over S without repetition, of any length.
RECURSIVE DistinctSeqs(_)
DistinctSeqs(S) ==
  IF S = {} THEN {<<>>}
  ELSE {<<>>} \cup
       UNION { {<<x>> \o s : s \in DistinctSeqs(S \ {x})} : x \in S }

SeqToSet(s) == {s[i] : i \in 1..Len(s)}

\* ------------------------------------------------------------------- state

VARIABLES
  SharedWorkflow,        \* share table: rows [user, workflow]
  Workflow,              \* the workflow's row in the workflow table
  WorkflowsTags,         \* tag ids associated with the workflow (association table)
  activeWorkflows,       \* TRUE iff the trigger runtime holds the workflow registered
  workflowTagsDisabled,  \* configuration: tagging disabled
  call,                  \* per request slot: the position and locals of its call
  query,                 \* the last getMany or getSharing call and its outcome
  journal                \* the crash journal file and the sessions of the process

vars ==
  <<SharedWorkflow, Workflow, WorkflowsTags, activeWorkflows,
    workflowTagsDisabled, call, query, journal>>

\* ------------------------------------------------------------ input domains

\* The proposed entity. active is a set holding zero (field not sent) or one
\* boolean; name "" is the absent/empty name, "TooLong" fails validation.
Names == {"", "Foo", "TooLong"}

\* The settings keys the normalization looks at (lines 195-217). A settings
\* object is a record of these keys, each a set holding zero (key absent) or
\* one value; executionTimeout holds the text of its value.
Settings ==
  [ timezone                 : {{}, {"DEFAULT"}, {"Europe/Berlin"}},
    saveDataErrorExecution   : {{}, {"DEFAULT"}, {"all"}},
    saveDataSuccessExecution : {{}, {"DEFAULT"}, {"none"}},
    saveManualExecutions     : {{}, {"DEFAULT"}, {"true"}},
    executionTimeout         : {{}, {"300"}, {"300.5"}, {"3600"}} ]

NoSettings ==
  [ timezone |-> {}, saveDataErrorExecution |-> {}, saveDataSuccessExecution |-> {},
    saveManualExecutions |-> {}, executionTimeout |-> {} ]

\* The version/hash markers of the model.
Hashes == {"h1", "h2"}

\* settings and hash are sets holding zero (field not sent) or one value.
ProposedEntities ==
  [active : {{}, {TRUE}, {FALSE}}, name : Names, settings : {{}}, hash : {{}}]

\* The optional tag list: {} is "not supplied", {s} is the supplied list s.
TagLists == {{}} \cup { {s} : s \in DistinctSeqs(TagIds) }

\* Errors a collaborator may raise.
RuntimeErrors == {"RuntimeErrorA", "RuntimeErrorB"}

NoError == [message |-> "", httpStatusCode |-> 0]

ResponseError(message, httpStatusCode) ==
  [message |-> message, httpStatusCode |-> httpStatusCode]

CouldNotBeFound == "Workflow could not be found to be updated."

\* An error raised by a collaborator (no status of its own).
Thrown(message) == [message |-> message, httpStatusCode |-> 0]

NoShared == [found |-> FALSE, active |-> FALSE]

NoUpdated == [found |-> FALSE, active |-> FALSE, tags |-> {}]

Idle ==
  [ pc              |-> "idle",
    user            |-> CHOOSE u \in Users : u.id = 1,
    workflow        |-> [active |-> {}, name |-> "", settings |-> {}, hash |-> {}],
    proposed        |-> [active |-> {}, name |-> "", settings |-> {}, hash |-> {}],
    tags            |-> {},
    shared          |-> NoShared,
    updatedWorkflow |-> NoUpdated,
    error           |-> NoError,
    log             |-> <<>>,
    before          |-> [active |-> FALSE, registered |-> FALSE, tags |-> {}] ]

\* No query has been made.
NoQuery == [op |-> "none"]

\* No session has run yet and there is no journal file. file: the journal
\* file exists; pc: the position of the running session; sawFile, reported,
\* paused: what its init found and did; history: how the earlier sessions
\* ended and where.
NoJournal ==
  [file |-> FALSE, pc |-> "stopped", sawFile |-> FALSE, reported |-> FALSE,
   paused |-> FALSE, history |-> <<>>]

Init ==
  /\ query = NoQuery
  /\ journal = NoJournal
  /\ SharedWorkflow \in SUBSET [user : UserIds, workflow : {workflowId}]
  /\ Workflow \in [active : BOOLEAN, settings : {NoSettings}, hash : {"h1"}]
  /\ activeWorkflows = Workflow.active
  /\ WorkflowsTags \in SUBSET TagIds
  /\ workflowTagsDisabled \in BOOLEAN
  /\ call = [r \in Reqs |-> Idle]

\* ----------------------------------------------------------------- helpers

Set(r, f) ==
  /\ call' = [call EXCEPT ![r] = f]
  /\ UNCHANGED <<query, journal>>

Entry(op, arg, res) == [op |-> op, arg |-> arg, res |-> res]

Logged(r, e) == Append(call[r].log, e)

Fail(r, e, err) ==
  Set(r, [call[r] EXCEPT !.pc = "failed", !.error = err, !.log = Logged(r, e)])

DbUnchanged ==
  UNCHANGED <<SharedWorkflow, Workflow, WorkflowsTags, activeWorkflows,
              workflowTagsDisabled>>

\* --------------------------------------------------------------- the call

\* A request arrives: updateWorkflow(user, workflow, workflowId, tags).
Begin(r, user, workflow, tags) ==
  /\ r = 1
  /\ \A q \in Reqs : call[q].pc = "idle"
  /\ Set(r, [Idle EXCEPT
        !.pc = "authorize", !.user = user, !.workflow = workflow, !.tags = tags,
        !.proposed = workflow,
        !.before = [active |-> Workflow.active, registered |-> activeWorkflows,
                    tags |-> WorkflowsTags]])
  /\ DbUnchanged

\* whereClause({user, entityType: 'workflow', entityId}): the lookup is keyed by
\* the workflow id, and constrained by the user's id unless the user's global
\* role is owner. user is a set: empty when the constraint is omitted.
whereClause(user, entityId) ==
  [ workflow |-> entityId,
    user     |-> IF user.globalRole # "owner" THEN {user.id} ELSE {} ]

\* Db.collections.SharedWorkflow.findOne({where}): the rows that match.
findShared(where) ==
  { s \in SharedWorkflow :
      /\ s.workflow = where.workflow
      /\ (where.user = {} \/ s.user \in where.user) }

\* Mutant: the lookup is never constrained by the user.
AuthorizeAnyShare(r) ==
  /\ call[r].pc = "authorize"
  /\ IF findShared([whereClause(call[r].user, workflowId) EXCEPT !.user = {}]) = {}
     THEN Set(r, [call[r] EXCEPT
            !.pc = "failed", !.error = ResponseError(CouldNotBeFound, 404)])
     ELSE Set(r, [call[r] EXCEPT
            !.pc = "prepare",
            !.shared = [found |-> TRUE, active |-> Workflow.active]])
  /\ DbUnchanged

\* Mutant: the lookup is constrained by the user for every role.
AuthorizeOwnShare(r) ==
  /\ call[r].pc = "authorize"
  /\ IF findShared([whereClause(call[r].user, workflowId)
                      EXCEPT !.user = {call[r].user.id}]) = {}
     THEN Set(r, [call[r] EXCEPT
            !.pc = "failed", !.error = ResponseError(CouldNotBeFound, 404)])
     ELSE Set(r, [call[r] EXCEPT
            !.pc = "prepare",
            !.shared = [found |-> TRUE, active |-> Workflow.active]])
  /\ DbUnchanged

\* Lines 152-171: the share lookup; no row is a 404.
Authorize(r) ==
  /\ call[r].pc = "authorize"
  /\ IF findShared(whereClause(call[r].user, workflowId)) = {}
     THEN Set(r, [call[r] EXCEPT
            !.pc = "failed", !.error = ResponseError(CouldNotBeFound, 404)])
     ELSE Set(r, [call[r] EXCEPT
            !.pc = "prepare",
            !.shared = [found |-> TRUE, active |-> Workflow.active]])
  /\ DbUnchanged

\* Lines 182-186: replaceInvalidCredentials, addNodeIds and the
\* 'workflow.update' external hook, which may throw.
Prepare(r) ==
  /\ call[r].pc = "prepare"
  /\ \/ Set(r, [call[r] EXCEPT
          !.pc = "deactivate",
          !.log = Logged(r, Entry("hook", "workflow.update", "ok"))])
     \/ Fail(r, Entry("hook", "workflow.update", "HookError"), Thrown("HookError"))
  /\ DbUnchanged

\* Mutant: the workflow is removed whatever the row read at authorization.
DeactivateAlways(r) ==
  /\ call[r].pc = "deactivate"
  /\ activeWorkflows' = FALSE
  /\ Set(r, [call[r] EXCEPT
       !.pc = "normalize",
       !.log = Logged(r, Entry("remove", workflowId, "ok"))])
  /\ UNCHANGED <<SharedWorkflow, Workflow, WorkflowsTags, workflowTagsDisabled>>

\* Mutant: the workflow is removed only when the proposed entity does not
\* keep it active.
DeactivateUnlessKeptActive(r) ==
  /\ call[r].pc = "deactivate"
  /\ \/ /\ ~(call[r].shared.active /\ call[r].workflow.active # {TRUE})
        /\ Set(r, [call[r] EXCEPT !.pc = "normalize"])
        /\ UNCHANGED activeWorkflows
     \/ /\ call[r].shared.active /\ call[r].workflow.active # {TRUE}
        /\ activeWorkflows' = FALSE
        /\ Set(r, [call[r] EXCEPT
             !.pc = "normalize",
             !.log = Logged(r, Entry("remove", workflowId, "ok"))])
  /\ UNCHANGED <<SharedWorkflow, Workflow, WorkflowsTags, workflowTagsDisabled>>

\* Lines 188-192: remove the workflow from the runtime if the row read at
\* authorization was active.
Deactivate(r) ==
  /\ call[r].pc = "deactivate"
  /\ \/ /\ ~call[r].shared.active
        /\ Set(r, [call[r] EXCEPT !.pc = "normalize"])
        /\ UNCHANGED activeWorkflows
     \/ /\ call[r].shared.active
        /\ activeWorkflows' = FALSE
        /\ Set(r, [call[r] EXCEPT
             !.pc = "normalize",
             !.log = Logged(r, Entry("remove", workflowId, "ok"))])
     \/ /\ call[r].shared.active
        /\ Fail(r, Entry("remove", workflowId, "RemoveError"), Thrown("RemoveError"))
        /\ UNCHANGED activeWorkflows
  /\ UNCHANGED <<SharedWorkflow, Workflow, WorkflowsTags, workflowTagsDisabled>>

\* validateEntity(workflow): the structural rules of the entity (name length).
validateEntity(workflow) == workflow.name # "TooLong"

\* config.get('executions.timeout') (line 213).
executionsTimeout == 300

\* parseInt(text, 10) on the timeout texts of the model: the leading integer.
parseInt10(text) ==
  CASE text = "300"   -> 300
    [] text = "300.5" -> 300
    [] text = "3600"  -> 3600

\* Mutant: saveManualExecutions is not looked at.
prunedButManual(settings) ==
  [ timezone                 |-> settings.timezone \ {"DEFAULT"},
    saveDataErrorExecution   |-> settings.saveDataErrorExecution \ {"DEFAULT"},
    saveDataSuccessExecution |-> settings.saveDataSuccessExecution \ {"DEFAULT"},
    saveManualExecutions     |-> settings.saveManualExecutions,
    executionTimeout         |->
      {t \in settings.executionTimeout : parseInt10(t) # executionsTimeout} ]

\* Lines 194-218: the keys that hold "DEFAULT", and an executionTimeout whose
\* integer is the configured default, are deleted from the settings.
pruned(settings) ==
  [ timezone                 |-> settings.timezone \ {"DEFAULT"},
    saveDataErrorExecution   |-> settings.saveDataErrorExecution \ {"DEFAULT"},
    saveDataSuccessExecution |-> settings.saveDataSuccessExecution \ {"DEFAULT"},
    saveManualExecutions     |-> settings.saveManualExecutions \ {"DEFAULT"},
    executionTimeout         |->
      {t \in settings.executionTimeout : parseInt10(t) # executionsTimeout} ]

\* The entity after lines 194-218 (nothing to do without settings).
normalized(workflow) ==
  [workflow EXCEPT !.settings = {pruned(v) : v \in @}]

\* Lines 194-223: settings pruning, then validation when the name is non-empty.
Normalize(r) ==
  /\ call[r].pc = "normalize"
  /\ IF call[r].workflow.name # ""
     THEN IF validateEntity(call[r].workflow)
          THEN Set(r, [call[r] EXCEPT
                 !.pc = "persist",
                 !.workflow = normalized(@),
                 !.log = Logged(r, Entry("validateEntity", "workflow", "ok"))])
          ELSE Set(r, [call[r] EXCEPT
                 !.pc = "failed",
                 !.workflow = normalized(@),
                 !.error = ResponseError("ValidationError", 400),
                 !.log = Logged(r, Entry("validateEntity", "workflow", "ValidationError"))])
     ELSE Set(r, [call[r] EXCEPT !.pc = "persist", !.workflow = normalized(@)])
  /\ DbUnchanged

\* Db.collections.Workflow.update(workflowId, fields): a partial update; a
\* field that is not given keeps its value.
update(row, fields) ==
  [row EXCEPT
     !.active   = IF fields.active = {} THEN @
                  ELSE CHOOSE b \in fields.active : TRUE,
     !.settings = IF fields.settings = {} THEN @
                  ELSE CHOOSE v \in fields.settings : TRUE,
     !.hash     = IF fields.hash = {} THEN @
                  ELSE CHOOSE h \in fields.hash : TRUE]

\* const { hash, ...rest } = workflow (line 225).
rest(workflow) == [workflow EXCEPT !.hash = {}]

\* Lines 225-227: the persistence write of the proposed entity without hash.
Persist(r) ==
  /\ call[r].pc = "persist"
  /\ \/ /\ Workflow' = update(Workflow, rest(call[r].workflow))
        /\ Set(r, [call[r] EXCEPT
             !.pc = "tagSync",
             !.log = Logged(r, Entry("update", "rest", "ok"))])
     \/ /\ Fail(r, Entry("update", "rest", "QueryFailedError"),
                Thrown("QueryFailedError"))
        /\ UNCHANGED Workflow
  /\ UNCHANGED <<SharedWorkflow, WorkflowsTags, activeWorkflows, workflowTagsDisabled>>

\* The tag list of the call, <<>> when none was supplied.
requested(r) == IF call[r].tags = {} THEN <<>> ELSE CHOOSE s \in call[r].tags : TRUE

\* TagHelpers.removeRelations(workflowId, tablePrefix): deletes every
\* association row of the workflow.
removeRelations(rows) == {}

\* TagHelpers.createRelations(workflowId, tagIds, tablePrefix): inserts one
\* association row per requested tag id.
createRelations(rows, tagIds) == rows \cup SeqToSet(tagIds)

\* Mutant: the associations are removed only for a non-empty tag list.
TagRemoveIfNonEmpty(r) ==
  /\ call[r].pc = "tagSync"
  /\ \/ /\ ~(call[r].tags # {} /\ ~workflowTagsDisabled /\ Len(requested(r)) > 0)
        /\ Set(r, [call[r] EXCEPT !.pc = "reload"])
        /\ UNCHANGED WorkflowsTags
     \/ /\ call[r].tags # {} /\ ~workflowTagsDisabled /\ Len(requested(r)) > 0
        /\ WorkflowsTags' = removeRelations(WorkflowsTags)
        /\ Set(r, [call[r] EXCEPT
             !.pc = "tagCreate",
             !.log = Logged(r, Entry("removeRelations", workflowId, "ok"))])
  /\ UNCHANGED <<SharedWorkflow, Workflow, activeWorkflows, workflowTagsDisabled>>

\* Lines 229-231: with a tag list and tagging enabled, remove all associations.
TagRemove(r) ==
  /\ call[r].pc = "tagSync"
  /\ \/ /\ ~(call[r].tags # {} /\ ~workflowTagsDisabled)
        /\ Set(r, [call[r] EXCEPT !.pc = "reload"])
        /\ UNCHANGED WorkflowsTags
     \/ /\ call[r].tags # {} /\ ~workflowTagsDisabled
        /\ WorkflowsTags' = removeRelations(WorkflowsTags)
        /\ Set(r, [call[r] EXCEPT
             !.pc = IF Len(requested(r)) > 0 THEN "tagCreate" ELSE "reload",
             !.log = Logged(r, Entry("removeRelations", workflowId, "ok"))])
     \/ /\ call[r].tags # {} /\ ~workflowTagsDisabled
        /\ Fail(r, Entry("removeRelations", workflowId, "QueryFailedError"),
                Thrown("QueryFailedError"))
        /\ UNCHANGED WorkflowsTags
  /\ UNCHANGED <<SharedWorkflow, Workflow, activeWorkflows, workflowTagsDisabled>>

\* Mutant: a failure to create the associations is swallowed.
TagCreateSwallow(r) ==
  /\ call[r].pc = "tagCreate"
  /\ \/ /\ WorkflowsTags' = createRelations(WorkflowsTags, requested(r))
        /\ Set(r, [call[r] EXCEPT
             !.pc = "reload",
             !.log = Logged(r, Entry("createRelations", workflowId, "ok"))])
     \/ /\ Set(r, [call[r] EXCEPT
             !.pc = "reload",
             !.log = Logged(r, Entry("createRelations", workflowId, "QueryFailedError"))])
        /\ UNCHANGED WorkflowsTags
  /\ UNCHANGED <<SharedWorkflow, Workflow, activeWorkflows, workflowTagsDisabled>>

\* Lines 233-235: create the associations of a non-empty tag list.
TagCreate(r) ==
  /\ call[r].pc = "tagCreate"
  /\ \/ /\ WorkflowsTags' = createRelations(WorkflowsTags, requested(r))
        /\ Set(r, [call[r] EXCEPT
             !.pc = "reload",
             !.log = Logged(r, Entry("createRelations", workflowId, "ok"))])
     \/ /\ Fail(r, Entry("createRelations", workflowId, "QueryFailedError"),
                Thrown("QueryFailedError"))
        /\ UNCHANGED WorkflowsTags
  /\ UNCHANGED <<SharedWorkflow, Workflow, activeWorkflows, workflowTagsDisabled>>

\* The orders in which the store may return a set of tags.
Orders(S) == {s \in DistinctSeqs(S) : Len(s) = Cardinality(S)}

\* TagHelpers.sortByRequestOrder(tags, {requestOrder}): the tags in the order
\* of the request.
sortByRequestOrder(tags, requestOrder) ==
  SelectSeq(requestOrder, LAMBDA t : t \in SeqToSet(tags))

\* Mutant: the reloaded tags are returned in the order of the store.
ReloadUnsorted(r) ==
  /\ call[r].pc = "reload"
  /\ \/ \E tags \in Orders(WorkflowsTags) :
          Set(r, [call[r] EXCEPT
            !.pc = "afterUpdate",
            !.log = Logged(r, Entry("findOne", workflowId, "ok")),
            !.updatedWorkflow =
               [ found  |-> TRUE,
                 active |-> Workflow.active,
                 tags   |-> IF workflowTagsDisabled THEN {} ELSE {tags} ]])
     \/ Fail(r, Entry("findOne", workflowId, "absent"),
             ResponseError(CouldNotBeFound, 400))
     \/ Fail(r, Entry("findOne", workflowId, "QueryFailedError"),
             Thrown("QueryFailedError"))
  /\ DbUnchanged

\* Mutant: a missing row is not checked; the call goes on with the row read
\* at authorization.
ReloadUnchecked(r) ==
  /\ call[r].pc = "reload"
  /\ Set(r, [call[r] EXCEPT
       !.pc = "afterUpdate",
       !.log = Logged(r, Entry("findOne", workflowId, "absent")),
       !.updatedWorkflow =
          [found |-> TRUE, active |-> call[r].shared.active, tags |-> {}]])
  /\ DbUnchanged

\* Lines 238-262: re-read the row (with its tags unless tagging is disabled);
\* no row is a 400; then order the tags as requested.
Reload(r) ==
  /\ call[r].pc = "reload"
  /\ \/ \E tags \in Orders(WorkflowsTags) :
          Set(r, [call[r] EXCEPT
            !.pc = "afterUpdate",
            !.log = Logged(r, Entry("findOne", workflowId, "ok")),
            !.updatedWorkflow =
               [ found  |-> TRUE,
                 active |-> Workflow.active,
                 tags   |-> IF workflowTagsDisabled THEN {}
                            ELSE IF Len(tags) > 0 /\ Len(requested(r)) > 0
                                 THEN {sortByRequestOrder(tags, requested(r))}
                                 ELSE {tags} ]])
     \/ Fail(r, Entry("findOne", workflowId, "absent"),
             ResponseError(CouldNotBeFound, 400))
     \/ Fail(r, Entry("findOne", workflowId, "QueryFailedError"),
             Thrown("QueryFailedError"))
  /\ DbUnchanged

\* Lines 264-265: the 'workflow.afterUpdate' external hook, which may throw.
AfterUpdate(r) ==
  /\ call[r].pc = "afterUpdate"
  /\ \/ Set(r, [call[r] EXCEPT
          !.pc = "activate",
          !.log = Logged(r, Entry("hook", "workflow.afterUpdate", "ok"))])
     \/ Fail(r, Entry("hook", "workflow.afterUpdate", "HookError"), Thrown("HookError"))
  /\ DbUnchanged

\* Mutant: the mode hint does not look at the previous state.
modeAlwaysUpdate(shared) == "update"

\* The mode hint of the add call (line 273).
mode(shared) == IF shared.active THEN "update" ELSE "activate"

\* Mutant: the proposed entity's flag, not the reloaded row's, decides.
ActivateProposed(r) ==
  /\ call[r].pc = "activate"
  /\ \/ /\ call[r].workflow.active # {TRUE}
        /\ Set(r, [call[r] EXCEPT !.pc = "returned"])
        /\ UNCHANGED activeWorkflows
     \/ /\ call[r].workflow.active = {TRUE}
        /\ activeWorkflows' = TRUE
        /\ Set(r, [call[r] EXCEPT
             !.pc = "returned",
             !.log = Logged(r, Entry("hook", "workflow.activate", "ok"))
                       \o <<Entry("add", mode(call[r].shared), "ok")>>])
  /\ UNCHANGED <<SharedWorkflow, Workflow, WorkflowsTags, workflowTagsDisabled>>

\* Lines 267-274: when the reloaded row is active, run the 'workflow.activate'
\* hook and add the workflow to the runtime; an error of either is caught.
Activate(r) ==
  /\ call[r].pc = "activate"
  /\ \/ /\ ~call[r].updatedWorkflow.active
        /\ Set(r, [call[r] EXCEPT !.pc = "returned"])
        /\ UNCHANGED activeWorkflows
     \/ /\ call[r].updatedWorkflow.active
        /\ Set(r, [call[r] EXCEPT
             !.pc = "compensate",
             !.error = Thrown("HookError"),
             !.log = Logged(r, Entry("hook", "workflow.activate", "HookError"))])
        /\ UNCHANGED activeWorkflows
     \/ /\ call[r].updatedWorkflow.active
        /\ activeWorkflows' = TRUE
        /\ Set(r, [call[r] EXCEPT
             !.pc = "returned",
             !.log = Logged(r, Entry("hook", "workflow.activate", "ok"))
                       \o <<Entry("add", mode(call[r].shared), "ok")>>])
     \/ /\ call[r].updatedWorkflow.active
        /\ \E e \in RuntimeErrors :
             Set(r, [call[r] EXCEPT
               !.pc = "compensate",
               !.error = Thrown(e),
               !.log = Logged(r, Entry("hook", "workflow.activate", "ok"))
                         \o <<Entry("add", mode(call[r].shared), e)>>])
        /\ UNCHANGED activeWorkflows
  /\ UNCHANGED <<SharedWorkflow, Workflow, WorkflowsTags, workflowTagsDisabled>>

\* Mutant: the entity is written again without its flag forced to false.
CompensateUnforced(r) ==
  /\ call[r].pc = "compensate"
  /\ Workflow' = update(Workflow, call[r].workflow)
  /\ Set(r, [call[r] EXCEPT
       !.pc = "failed",
       !.workflow.active = {FALSE},
       !.updatedWorkflow.active = FALSE,
       !.log = Logged(r, Entry("update", "workflow", "ok"))])
  /\ UNCHANGED <<SharedWorkflow, WorkflowsTags, activeWorkflows, workflowTagsDisabled>>

\* Lines 275-285: set the proposed entity inactive, write it, set the reloaded
\* record inactive and rethrow the caught error.
Compensate(r) ==
  /\ call[r].pc = "compensate"
  /\ LET workflow == [call[r].workflow EXCEPT !.active = {FALSE}] IN
     \/ /\ Workflow' = update(Workflow, workflow)
        /\ Set(r, [call[r] EXCEPT
             !.pc = "failed",
             !.workflow = workflow,
             !.updatedWorkflow.active = FALSE,
             !.log = Logged(r, Entry("update", "workflow", "ok"))])
     \/ /\ Set(r, [call[r] EXCEPT
             !.pc = "failed",
             !.workflow = workflow,
             !.error = Thrown("QueryFailedError"),
             !.log = Logged(r, Entry("update", "workflow", "QueryFailedError"))])
        /\ UNCHANGED Workflow
  /\ UNCHANGED <<SharedWorkflow, WorkflowsTags, activeWorkflows, workflowTagsDisabled>>

\* The call has returned or thrown; the slot is free for the next request.
Return(r) ==
  /\ call[r].pc \in {"returned", "failed"}
  /\ Set(r, Idle)
  /\ DbUnchanged

Step(r) ==
  \/ Authorize(r)
  \/ Prepare(r)
  \/ Deactivate(r)
  \/ Normalize(r)
  \/ Persist(r)
  \/ TagRemove(r)
  \/ TagCreate(r)
  \/ Reload(r)
  \/ AfterUpdate(r)
  \/ Activate(r)
  \/ Compensate(r)
  \/ Return(r)

Next ==
  \E r \in Reqs :
    \/ \E user \in Users, workflow \in ProposedEntities, tags \in TagLists :
         Begin(r, user, workflow, tags)
    \/ Step(r)

Spec == Init /\ [][Next]_vars

\* ------------------------------------------- calls with settings in the entity

Owner == CHOOSE u \in Users : u.globalRole = "owner"

Present(settings) ==
  Cardinality({k \in DOMAIN settings : settings[k] # {}})

SettingsEntities ==
  [ active   : {{}, {TRUE}},
    name     : {"Foo"},
    settings : {{}} \cup {{v} : v \in {x \in Settings : Present(x) <= MaxSettingsKeys}},
    hash     : {{}} ]

\* The owner holds the share row; tagging is enabled.
InitOwned ==
  /\ query = NoQuery
  /\ journal = NoJournal
  /\ SharedWorkflow = {[user |-> Owner.id, workflow |-> workflowId]}
  /\ Workflow \in [active : BOOLEAN, settings : {NoSettings}, hash : {"h1"}]
  /\ activeWorkflows = Workflow.active
  /\ WorkflowsTags = {}
  /\ workflowTagsDisabled = FALSE
  /\ call = [r \in Reqs |-> Idle]

NextSettings ==
  \E r \in Reqs :
    \/ \E workflow \in SettingsEntities, tags \in {{}, {<<1>>}} :
         Begin(r, Owner, workflow, tags)
    \/ Step(r)

SpecSettings == InitOwned /\ [][NextSettings]_vars

\* ------------------------------------------------ calls with a hash marker

\* Proposed entities that may carry the hash marker of the editor's copy.
HashEntities ==
  [ active : {{}, {TRUE}, {FALSE}}, name : {"Foo"},
    settings : {{}, {[NoSettings EXCEPT !.timezone = {"Europe/Berlin"}]}},
    hash : {{}} \cup {{h} : h \in Hashes} ]

NextHash ==
  \E r \in Reqs :
    \/ \E workflow \in HashEntities, tags \in {{}, {<<1>>}} : Begin(r, Owner, workflow, tags)
    \/ Step(r)

SpecHash == InitOwned /\ [][NextHash]_vars

\* ------------------------------------------------------- concurrent calls

\* A request arrives while another call may be running.
Arrive(r, user, workflow, tags) ==
  /\ call[r].pc = "idle"
  /\ Set(r, [Idle EXCEPT
        !.pc = "authorize", !.user = user, !.workflow = workflow, !.tags = tags,
        !.proposed = workflow,
        !.before = [active |-> Workflow.active, registered |-> activeWorkflows,
                    tags |-> WorkflowsTags]])
  /\ DbUnchanged

\* Proposed entities of the concurrent calls.
ConcurrentEntities ==
  [active : {{}, {TRUE}, {FALSE}}, name : {"Foo"}, settings : {{}}, hash : {{}}]

\* A step of a call in which the collaborator that is called succeeds.
Succeed(r) == Step(r) /\ call'[r].pc \notin {"failed", "compensate"}

\* Two requests on the workflow, each a sequence of awaited calls: the steps
\* of the two calls interleave at every await.
NextConcurrent ==
  \E r \in Reqs :
    \/ \E workflow \in ConcurrentEntities : Arrive(r, Owner, workflow, {})
    \/ Succeed(r)

SpecConcurrent == InitOwned /\ [][NextConcurrent]_vars

\* ------------------------------------------------------------------ getMany

\* Workflow ids of the listing range over 1..MaxWorkflow.
MaxWorkflow == 2

ListedIds == 1..MaxWorkflow

\* A JSON value: t is its type, n the value of an integer (1/0 of a boolean),
\* s the text of a string or of a non-integer number, o the keys of an object.
\* An object has the keys id, name, active and evil (any key outside the
\* allow-list), each a set holding zero (key absent) or one scalar.
NoKeys == [id |-> {}, name |-> {}, active |-> {}, evil |-> {}]

JNull == [t |-> "null", n |-> 0, s |-> "", o |-> NoKeys]

JInt(n) == [t |-> "integer", n |-> n, s |-> "", o |-> NoKeys]

JStr(text) == [t |-> "string", n |-> 0, s |-> text, o |-> NoKeys]

JBool(b) == [t |-> "boolean", n |-> IF b THEN 1 ELSE 0, s |-> "", o |-> NoKeys]

JNumber(text) == [t |-> "number", n |-> 0, s |-> text, o |-> NoKeys]

JArray == [t |-> "array", n |-> 0, s |-> "", o |-> NoKeys]

JObject(o) == [t |-> "object", n |-> 0, s |-> "", o |-> o]

\* The texts of the string ids of the model.
IdTexts == {"1", "2", "abc", "0.2e1", "0"}

FilterObjects ==
  [ id     : {{}} \cup {{JInt(n)} : n \in 0..(MaxWorkflow + 1)}
                  \cup {{JStr(t)} : t \in IdTexts} \cup {{JBool(TRUE)}},
    name   : {{}, {JStr("A")}, {JInt(7)}},
    active : {{}, {JBool(TRUE)}, {JStr("yes")}},
    evil   : {{}, {JStr("x")}} ]

JsonValues ==
  {JNull, JInt(0), JInt(3), JBool(FALSE), JBool(TRUE), JStr(""), JStr("abc"),
   JNumber("1.5"), JArray} \cup {JObject(o) : o \in FilterObjects}

\* The raw filter text: empty, not parseable, or the text of a JSON value.
RawFilters ==
  {[kind |-> "empty", json |-> JNull], [kind |-> "malformed", json |-> JNull]}
    \cup {[kind |-> "json", json |-> v] : v \in JsonValues}

\* The workflow table of the listing: rows with distinct ids.
Rows == [id : ListedIds, name : {"A", "B"}, active : BOOLEAN]

Stores ==
  { st \in SUBSET {r \in Rows : r.name = (IF r.id = 1 THEN "A" ELSE "B")} :
      \A a, b \in st : a.id = b.id => a = b }

\* jsonParse(rawFilter): throws on a text that is no JSON.
jsonParse(raw) == [threw |-> raw.kind # "json", value |-> raw.json]

\* JavaScript truthiness of a JSON value.
truthy(v) ==
  CASE v.t = "null"    -> FALSE
    [] v.t = "boolean" -> v.n = 1
    [] v.t = "integer" -> v.n # 0
    [] v.t = "string"  -> v.s # ""
    [] OTHER           -> TRUE

\* Line 37: Object.keys(schemaGetWorkflowsQueryFilter.properties).
allowedWorkflowsQueryFilterFields == {"id", "name", "active"}

\* Lines 83-85: every key outside the allow-list is deleted.
deleteKeys(v) ==
  [v EXCEPT !.o = [k \in DOMAIN @ |->
                     IF k \in allowedWorkflowsQueryFilterFields THEN @[k] ELSE {}]]

\* Lines 83-85 on a non-empty string: its keys are its indices, which cannot
\* be deleted; delete throws a TypeError in strict mode and does nothing
\* otherwise.
deleteThrows(v, strict) == v.t = "string" /\ v.s # "" /\ strict

\* Lines 27-35 and 86: the value is an object, id an integer or a string,
\* name a string, active a boolean.
schemaValid(v) ==
  /\ v.t = "object"
  /\ \A x \in v.o.id : x.t \in {"integer", "string"}
  /\ \A x \in v.o.name : x.t = "string"
  /\ \A x \in v.o.active : x.t = "boolean"

FilterParseError ==
  ResponseError("Parameter \"filter\" contained invalid JSON string.", 500)

\* Mutant: an error of the parse leaves the filter undefined.
parseFilterSilently(rawFilter, strict) ==
  LET parsed == jsonParse(rawFilter)
      v == deleteKeys(parsed.value)
  IN  [ threw  |-> FALSE,
        filter |-> IF rawFilter.kind = "json" /\ truthy(parsed.value) /\ schemaValid(v)
                   THEN {v.o} ELSE {} ]

\* Lines 78-101: the filter of the listing, a set holding zero (undefined) or
\* one object; any error inside the try is the filter-parse error.
parseFilter(rawFilter, strict) ==
  IF rawFilter.kind = "empty" THEN [threw |-> FALSE, filter |-> {}]
  ELSE LET parsed == jsonParse(rawFilter) IN
       IF parsed.threw THEN [threw |-> TRUE, filter |-> {}]
       ELSE IF ~truthy(parsed.value) THEN [threw |-> FALSE, filter |-> {}]
       ELSE IF deleteThrows(parsed.value, strict) THEN [threw |-> TRUE, filter |-> {}]
       ELSE LET v == deleteKeys(parsed.value) IN
            [ threw  |-> FALSE,
              filter |-> IF schemaValid(v) THEN {v.o} ELSE {} ]

NaN == [nan |-> TRUE, n |-> 0]

\* parseInt(filter.id.toString()) (line 105): the leading integer of the text.
parseInt(id) ==
  IF id.t = "integer" THEN [nan |-> FALSE, n |-> id.n]
  ELSE CASE id.s = "1"     -> [nan |-> FALSE, n |-> 1]
         [] id.s = "2"     -> [nan |-> FALSE, n |-> 2]
         [] id.s = "0"     -> [nan |-> FALSE, n |-> 0]
         [] id.s = "0.2e1" -> [nan |-> FALSE, n |-> 0]
         [] OTHER          -> NaN

\* Lines 103-110: TRUE when the safeguard returns the empty list.
safeguard(filter, sharedWorkflowIds) ==
  \E f \in filter : \E id \in f.id :
    LET parsedId == parseInt(id) IN
      /\ ~parsedId.nan /\ parsedId.n # 0
      /\ parsedId.n \notin sharedWorkflowIds

\* The ids the store's comparison id = ? accepts for a filter id: an integer
\* matches itself; a text is compared as the number it spells (SQLite's
\* numeric affinity: '0.2e1' is 2), and matches nothing if it spells none.
storeIds(id) ==
  IF id.t = "integer" THEN {id.n}
  ELSE CASE id.s = "1"     -> {1}
         [] id.s = "2"     -> {2}
         [] id.s = "0"     -> {0}
         [] id.s = "0.2e1" -> {2}
         [] OTHER          -> {}

\* Lines 125-132: where {id: In(sharedWorkflowIds), ...filter}; an id of the
\* filter replaces the In(...) of the same key.
find(store, sharedWorkflowIds, filter) ==
  { row \in store :
      /\ \A f \in filter :
           /\ IF f.id = {} THEN row.id \in sharedWorkflowIds
              ELSE \A id \in f.id : row.id \in storeIds(id)
           /\ \A x \in f.name : row.name = x.s
           /\ \A x \in f.active : row.active = (x.n = 1)
      /\ filter = {} => row.id \in sharedWorkflowIds }

\* Lines 70-142: getMany(user, rawFilter) for a user whose shared ids are
\* sharedWorkflowIds.
getMany(store, sharedWorkflowIds, rawFilter, strict) ==
  IF sharedWorkflowIds = {}
  THEN [threw |-> FALSE, error |-> NoError, filter |-> {}, rows |-> {}]
  ELSE LET parsed == parseFilter(rawFilter, strict) IN
       IF parsed.threw
       THEN [threw |-> TRUE, error |-> FilterParseError, filter |-> {}, rows |-> {}]
       ELSE IF safeguard(parsed.filter, sharedWorkflowIds)
       THEN [threw |-> FALSE, error |-> NoError, filter |-> parsed.filter, rows |-> {}]
       ELSE [ threw |-> FALSE, error |-> NoError, filter |-> parsed.filter,
              rows  |-> find(store, sharedWorkflowIds, parsed.filter) ]

UpdateUnchanged ==
  UNCHANGED <<SharedWorkflow, Workflow, WorkflowsTags, activeWorkflows,
              workflowTagsDisabled, call, journal>>

\* The outcome of a call that has not been made yet.
Pending == [threw |-> FALSE, error |-> NoError, filter |-> {}, rows |-> {}]

\* The requests for the listing: the workflow table, the ids shared with the
\* calling user, and the raw filter.
GetManyRequests ==
  { [ op |-> "getMany", done |-> FALSE, store |-> store,
      sharedWorkflowIds |-> ids, rawFilter |-> rawFilter,
      strict |-> FALSE, out |-> Pending ] :
      store \in Stores, ids \in SUBSET ListedIds, rawFilter \in RawFilters }

\* The listing is computed: getMany(user, rawFilter). The build decides
\* whether the module runs in strict mode.
GetMany ==
  /\ query.op = "getMany" /\ ~query.done
  /\ \E strict \in BOOLEAN :
       query' = [ query EXCEPT
                    !.done = TRUE, !.strict = strict,
                    !.out = getMany(query.store, query.sharedWorkflowIds,
                                    query.rawFilter, strict) ]
  /\ UpdateUnchanged

\* ---------------------------------------------------------------- getSharing

\* Mutant: the user constraint is dropped for the owner whatever the option.
getSharingWhereOwner(user, id, allowGlobalOwner) ==
  [ workflow |-> id,
    user     |-> IF user.globalRole # "owner" THEN {user.id} ELSE {} ]

\* Lines 46-57: the where clause of getSharing.
getSharingWhere(user, id, allowGlobalOwner) ==
  [ workflow |-> id,
    user     |-> IF ~allowGlobalOwner \/ user.globalRole # "owner"
                 THEN {user.id} ELSE {} ]

NoRow == [user |-> 0, workflow |-> ""]

GetSharingRequests ==
  { [ op |-> "getSharing", done |-> FALSE, user |-> user, workflow |-> id,
      allowGlobalOwner |-> allowGlobalOwner, found |-> FALSE, row |-> NoRow ] :
      user \in Users, id \in {"1", "2"}, allowGlobalOwner \in BOOLEAN }

\* Lines 40-64: getSharing(user, workflowId, relations, {allowGlobalOwner}):
\* findOne returns one of the matching rows, or undefined when there is none.
GetSharing ==
  /\ query.op = "getSharing" /\ ~query.done
  /\ LET rows == findShared(getSharingWhere(query.user, query.workflow,
                                            query.allowGlobalOwner)) IN
       \/ /\ rows = {}
          /\ query' = [query EXCEPT !.done = TRUE]
       \/ \E row \in rows :
            query' = [query EXCEPT !.done = TRUE, !.found = TRUE, !.row = row]
  /\ UpdateUnchanged

\* A request is pending; the share table holds rows of two workflows, and a
\* listing request is made with the ids shared with its user.
InitQueries ==
  /\ \/ /\ query \in GetManyRequests
        /\ query.sharedWorkflowIds \subseteq {row.id : row \in query.store}
        /\ SharedWorkflow = {}
     \/ /\ query \in GetSharingRequests
        /\ SharedWorkflow \in SUBSET [user : UserIds, workflow : {"1", "2"}]
  /\ journal = NoJournal
  /\ Workflow = [active |-> FALSE, settings |-> NoSettings, hash |-> "h1"]
  /\ activeWorkflows = FALSE
  /\ WorkflowsTags = {}
  /\ workflowTagsDisabled = FALSE
  /\ call = [r \in Reqs |-> Idle]

NextQueries == GetMany \/ GetSharing

SpecQueries == InitQueries /\ [][NextQueries]_vars

\* ------------------------------------------------------------ CrashJournal

\* The sessions of one behaviour.
MaxSessions == 3

JournalUnchanged ==
  UNCHANGED <<SharedWorkflow, Workflow, WorkflowsTags, activeWorkflows,
              workflowTagsDisabled, call, query>>

\* The session ends: its ending and its position are added to the history.
Ended(end) ==
  [journal EXCEPT !.pc = "stopped",
                  !.history = Append(@, [end |-> end, at |-> journal.pc])]

\* A process starts and calls init().
Start ==
  /\ journal.pc = "stopped"
  /\ Len(journal.history) < MaxSessions
  /\ journal' = [journal EXCEPT !.pc = "init", !.sawFile = FALSE,
                                 !.reported = FALSE, !.paused = FALSE]
  /\ JournalUnchanged

\* Line 21: existsSync(journalFile).
Check ==
  /\ journal.pc = "init"
  /\ journal' = [journal EXCEPT !.sawFile = journal.file,
                                 !.pc = IF journal.file THEN "report" ELSE "mkdir"]
  /\ JournalUnchanged

\* Lines 23-24: 'Last session crashed' goes to the error reporter and the log.
Report ==
  /\ journal.pc = "report"
  /\ journal' = [journal EXCEPT !.reported = TRUE, !.pc = "sleep"]
  /\ JournalUnchanged

\* Line 26: the pause of ten seconds.
Sleep ==
  /\ journal.pc = "sleep"
  /\ journal' = [journal EXCEPT !.paused = TRUE, !.pc = "mkdir"]
  /\ JournalUnchanged

\* Line 8: mkdir of the folder, which may fail; init then throws.
Mkdir ==
  /\ journal.pc = "mkdir"
  /\ \/ journal' = [journal EXCEPT !.pc = "utimes"]
     \/ journal' = Ended("failed")
  /\ JournalUnchanged

\* Lines 10-12: utimes succeeds on a file that exists, and touchFile and init
\* return; it throws when there is no file (or for another reason), and the
\* catch goes on to open the file.
Utimes ==
  /\ journal.pc = "utimes"
  /\ \/ /\ journal.file
        /\ journal' = [journal EXCEPT !.pc = "running"]
     \/ journal' = [journal EXCEPT !.pc = "open"]
  /\ JournalUnchanged

\* Line 13: open(filePath, 'w') creates the file, or throws.
Open ==
  /\ journal.pc = "open"
  /\ \/ journal' = [journal EXCEPT !.file = TRUE, !.pc = "close"]
     \/ journal' = Ended("failed")
  /\ JournalUnchanged

\* Line 14: the descriptor is closed; touchFile and init return.
Close ==
  /\ journal.pc = "close"
  /\ journal' = [journal EXCEPT !.pc = "running"]
  /\ JournalUnchanged

\* Mutant: the journal file is left in place.
RmKeep ==
  /\ journal.pc = "running"
  /\ \/ journal' = [journal EXCEPT !.pc = "removed"]
     \/ journal' = Ended("failed")
  /\ JournalUnchanged

\* Line 32: cleanup() removes the file (force: a missing file is no error),
\* or rm throws.
Rm ==
  /\ journal.pc = "running"
  /\ \/ journal' = [journal EXCEPT !.file = FALSE, !.pc = "removed"]
     \/ journal' = Ended("failed")
  /\ JournalUnchanged

\* cleanup() has returned and the process exits.
Exit ==
  /\ journal.pc = "removed"
  /\ journal' = Ended("clean")
  /\ JournalUnchanged

\* The process dies at any point of a session.
Crash ==
  /\ journal.pc # "stopped"
  /\ journal' = Ended("crashed")
  /\ JournalUnchanged

InitJournal ==
  /\ journal = NoJournal
  /\ query = NoQuery
  /\ SharedWorkflow = {}
  /\ Workflow = [active |-> FALSE, settings |-> NoSettings, hash |-> "h1"]
  /\ activeWorkflows = FALSE
  /\ WorkflowsTags = {}
  /\ workflowTagsDisabled = FALSE
  /\ call = [r \in Reqs |-> Idle]

NextJournal ==
  \/ Start \/ Check \/ Report \/ Sleep \/ Mkdir \/ Utimes \/ Open \/ Close
  \/ Rm \/ Exit \/ Crash

SpecJournal == InitJournal /\ [][NextJournal]_vars

\* ---------------------------------------------------------------- claims

Exited(r) == call[r].pc \in {"returned", "failed"}

Log(r) == call[r].log

Count(r, op) == Cardinality({i \in DOMAIN Log(r) : Log(r)[i].op = op})

Has(r, e) == \E i \in DOMAIN Log(r) : Log(r)[i] = e

MainWrite == Entry("update", "rest", "ok")

CompensatingWrite == Entry("update", "workflow", "ok")

AddFailed(r) == \E i \in DOMAIN Log(r) : Log(r)[i].op = "add" /\ Log(r)[i].res # "ok"

\* C1 (as claimed): whenever a call exits, by returning or by failing at any
\* stage, the persisted active flag equals the runtime registration, provided
\* they agreed when the call began.
I1OnExit ==
  \A r \in Reqs :
    (Exited(r) /\ call[r].before.active = call[r].before.registered)
      => (Workflow.active = activeWorkflows)

\* C2 (as claimed): if the add call fails, then at exit the reloaded record,
\* the persisted row and the proposed entity are all inactive and the error
\* delivered is the add call's error.
CompensationAlways ==
  \A r \in Reqs :
    (call[r].pc = "failed" /\ AddFailed(r)) =>
      /\ ~call[r].updatedWorkflow.active
      /\ ~Workflow.active
      /\ call[r].workflow.active = {FALSE}
      /\ Has(r, Entry("add", mode(call[r].shared), call[r].error.message))

\* C2 (amended): if the add call fails, the proposed entity is inactive at
\* exit; if the compensating write then succeeds, the reloaded record and the
\* persisted row are inactive and the error delivered is the add call's error;
\* if the compensating write fails, its error is delivered instead.
ActivationCompensation ==
  \A r \in Reqs :
    (call[r].pc = "failed" /\ AddFailed(r)) =>
      /\ call[r].workflow.active = {FALSE}
      /\ Has(r, CompensatingWrite) =>
           /\ ~call[r].updatedWorkflow.active
           /\ ~Workflow.active
           /\ call[r].error \in {Thrown(e) : e \in RuntimeErrors}
           /\ Has(r, Entry("add", mode(call[r].shared), call[r].error.message))
      /\ ~Has(r, CompensatingWrite) =>
           /\ call[r].error = Thrown("QueryFailedError")
           /\ Has(r, Entry("update", "workflow", "QueryFailedError"))

\* C2 witness: an add call failed with RuntimeErrorB and the compensating
\* write succeeded.
ActivationCompensationWitness ==
  \E r \in Reqs :
    /\ call[r].pc = "failed"
    /\ AddFailed(r)
    /\ Has(r, CompensatingWrite)
    /\ call[r].error = Thrown("RuntimeErrorB")

\* The user of the call has no share row for the workflow and is not the owner.
Unauthorized(r) ==
  /\ call[r].pc # "idle"
  /\ call[r].user.globalRole # "owner"
  /\ [user |-> call[r].user.id, workflow |-> workflowId] \notin SharedWorkflow

UntouchedBy(r) ==
  /\ call[r].log = <<>>
  /\ Workflow.active = call[r].before.active
  /\ activeWorkflows = call[r].before.registered
  /\ WorkflowsTags = call[r].before.tags

\* C3: a call by a user without a share row and without the owner role fails
\* with the 404 not-found error whatever the payload, and has issued no
\* runtime call, no workflow write and no tag change.
AuthorizationRequired ==
  \A r \in Reqs :
    Unauthorized(r) =>
      /\ call[r].pc \in {"authorize", "failed"}
      /\ call[r].pc = "failed" => call[r].error = ResponseError(CouldNotBeFound, 404)
      /\ UntouchedBy(r)

\* C3 witness: an unauthorized call with an invalid payload on an active
\* workflow has failed.
AuthorizationRequiredWitness ==
  \E r \in Reqs :
    /\ Unauthorized(r)
    /\ call[r].pc = "failed"
    /\ call[r].workflow.name = "TooLong"
    /\ call[r].tags # {}
    /\ call[r].before.active

\* C4 (as claimed): a call by the global owner on a workflow with zero share
\* rows passes authorization.
OwnerBypassWithoutShares ==
  \A r \in Reqs :
    (call[r].pc \notin {"idle", "authorize"}
       /\ call[r].user.globalRole = "owner"
       /\ SharedWorkflow = {})
      => call[r].shared.found

\* C4 (amended): a call by the global owner passes authorization exactly when
\* the workflow has at least one share row, of any user; with zero share rows
\* it fails with the 404 error and nothing is written.
OwnerBypass ==
  \A r \in Reqs :
    (call[r].pc \notin {"idle", "authorize"} /\ call[r].user.globalRole = "owner") =>
      /\ call[r].shared.found <=> SharedWorkflow # {}
      /\ SharedWorkflow = {} =>
           /\ call[r].pc = "failed"
           /\ call[r].error = ResponseError(CouldNotBeFound, 404)
           /\ UntouchedBy(r)

\* C4 witness: the owner, holding no share row of their own, has reached and
\* made the persistence write.
OwnerBypassWitness ==
  \E r \in Reqs :
    /\ call[r].user.globalRole = "owner"
    /\ [user |-> call[r].user.id, workflow |-> workflowId] \notin SharedWorkflow
    /\ Has(r, MainWrite)

HookFailed(r) ==
  \E i \in DOMAIN Log(r) : Log(r)[i].op = "hook" /\ Log(r)[i].res # "ok"

\* The active flag of the record as it was reloaded: the compensation, which
\* runs only for an active reloaded record, is what clears it afterwards.
ReloadedActive(r) ==
  \/ call[r].updatedWorkflow.active
  \/ \E i \in DOMAIN Log(r) : Log(r)[i].op = "update" /\ Log(r)[i].arg = "workflow"

Before(r, e, i) == \E j \in 1..(i - 1) : Log(r)[j] = e

\* Every add call is the only one, is made for an active reloaded record, and
\* follows the persistence write, the tag sync and the reload; no write
\* follows an add call that succeeded.
DeactivateMutateReactivate(r) ==
  /\ Count(r, "add") <= 1
  /\ \A i \in DOMAIN Log(r) :
       Log(r)[i].op = "add" =>
         /\ ReloadedActive(r)
         /\ Before(r, MainWrite, i)
         /\ Before(r, Entry("findOne", workflowId, "ok"), i)
         /\ (call[r].tags # {} /\ ~workflowTagsDisabled) =>
              /\ Before(r, Entry("removeRelations", workflowId, "ok"), i)
              /\ Len(requested(r)) > 0 =>
                   Before(r, Entry("createRelations", workflowId, "ok"), i)
         /\ \A j \in DOMAIN Log(r) :
              (j > i /\ Log(r)[j].op = "update") => Log(r)[i].res # "ok"

\* C6 (as claimed): in every execution that reloaded the record, an add call
\* is issued if and only if the reloaded record is active, with the ordering
\* above.
ReactivationIff ==
  \A r \in Reqs :
    /\ DeactivateMutateReactivate(r)
    /\ (Exited(r) /\ call[r].updatedWorkflow.found) =>
         (Count(r, "add") = 1 <=> ReloadedActive(r))

\* C6 (amended): an add call is issued only if the reloaded record is active,
\* at most once and only after the write, the tag sync and the reload; if the
\* reloaded record is active the add call is issued unless the
\* 'workflow.afterUpdate' or 'workflow.activate' hook throws first; no write
\* follows an add call that succeeded.
ReactivationOrdering ==
  \A r \in Reqs :
    /\ DeactivateMutateReactivate(r)
    /\ (Exited(r) /\ call[r].updatedWorkflow.found /\ ~HookFailed(r)) =>
         (Count(r, "add") = 1 <=> ReloadedActive(r))
    /\ (Exited(r) /\ call[r].updatedWorkflow.found /\ HookFailed(r)) =>
         Count(r, "add") = 0

\* C6 witness: a call with a non-empty tag list has returned after a
\* successful add call on a workflow that was active before.
ReactivationOrderingWitness ==
  \E r \in Reqs :
    /\ call[r].pc = "returned"
    /\ Has(r, Entry("add", "update", "ok"))
    /\ Has(r, Entry("createRelations", workflowId, "ok"))

\* C7: every add call passes mode "update" if the persisted active flag was
\* true before the call and "activate" if it was false.
ActivationMode ==
  \A r \in Reqs :
    \A i \in DOMAIN Log(r) :
      Log(r)[i].op = "add" =>
        Log(r)[i].arg = IF call[r].before.active THEN "update" ELSE "activate"

\* C7 witness: an add call with mode "activate" on a workflow that was
\* inactive before the call.
ActivationModeWitness ==
  \E r \in Reqs :
    /\ ~call[r].before.active
    /\ Has(r, Entry("add", "activate", "ok"))

ActivationStage(e) ==
  e.op = "add" \/ (e.op = "hook" /\ e.arg = "workflow.activate")

\* C8: no call is issued twice; a call that failed is the last call of the
\* execution, which has then failed, except that a failure of the activation
\* stage is followed by exactly the compensating write; and the compensating
\* write is issued nowhere else.
AbortWithoutRetry ==
  \A r \in Reqs :
    \A i \in DOMAIN Log(r) :
      /\ \A j \in DOMAIN Log(r) :
           (j # i) => <<Log(r)[j].op, Log(r)[j].arg>> # <<Log(r)[i].op, Log(r)[i].arg>>
      /\ (Log(r)[i].res # "ok" /\ ~ActivationStage(Log(r)[i])) =>
           /\ i = Len(Log(r))
           /\ call[r].pc = "failed"
      /\ (Log(r)[i].res # "ok" /\ ActivationStage(Log(r)[i])) =>
           \/ i = Len(Log(r)) /\ call[r].pc = "compensate"
           \/ /\ i + 1 = Len(Log(r))
              /\ Log(r)[i + 1].op = "update" /\ Log(r)[i + 1].arg = "workflow"
              /\ call[r].pc = "failed"
      /\ (Log(r)[i].op = "update" /\ Log(r)[i].arg = "workflow") =>
           /\ i > 1
           /\ Log(r)[i - 1].res # "ok"
           /\ ActivationStage(Log(r)[i - 1])

\* C8 witness: the creation of the tag associations failed after the write
\* and the removal, and the call has failed.
AbortWithoutRetryWitness ==
  \E r \in Reqs :
    /\ call[r].pc = "failed"
    /\ Has(r, MainWrite)
    /\ Has(r, Entry("removeRelations", workflowId, "ok"))
    /\ Log(r)[Len(Log(r))] = Entry("createRelations", workflowId, "QueryFailedError")

\* C9: when the re-read finds no row, the call fails with the
\* could-not-be-found error and the re-read is its last call: no add call and
\* no write follows.
ReloadInconsistency ==
  \A r \in Reqs :
    \A i \in DOMAIN Log(r) :
      Log(r)[i] = Entry("findOne", workflowId, "absent") =>
        /\ i = Len(Log(r))
        /\ call[r].pc = "failed"
        /\ call[r].error = ResponseError(CouldNotBeFound, 400)
        /\ Count(r, "add") = 0
        /\ ~call[r].updatedWorkflow.found

\* C9 witness: the re-read found no row after a write that set the workflow
\* active.
ReloadInconsistencyWitness ==
  \E r \in Reqs :
    /\ Has(r, Entry("findOne", workflowId, "absent"))
    /\ Has(r, MainWrite)
    /\ call[r].workflow.active = {TRUE}
    /\ call[r].pc = "failed"

\* C10: after a call that returned, with a tag list supplied and tagging
\* enabled the persisted associations are exactly the requested ids (none for
\* an empty list); otherwise they are what they were before the call.
TagReconciliation ==
  \A r \in Reqs :
    call[r].pc = "returned" =>
      IF call[r].tags # {} /\ ~workflowTagsDisabled
      THEN WorkflowsTags = SeqToSet(requested(r))
      ELSE WorkflowsTags = call[r].before.tags

\* C10 witness: a call with an empty tag list has returned on a workflow that
\* had tags before, with tagging enabled.
TagReconciliationWitness ==
  \E r \in Reqs :
    /\ call[r].pc = "returned"
    /\ call[r].tags = {<<>>}
    /\ ~workflowTagsDisabled
    /\ call[r].before.tags # {}

\* A settings object that holds no "DEFAULT" value and no executionTimeout
\* equal to the configured default.
Minimal(settings) ==
  /\ "DEFAULT" \notin settings.timezone
  /\ "DEFAULT" \notin settings.saveDataErrorExecution
  /\ "DEFAULT" \notin settings.saveDataSuccessExecution
  /\ "DEFAULT" \notin settings.saveManualExecutions
  /\ \A t \in settings.executionTimeout : parseInt10(t) # executionsTimeout

Wrote(r) ==
  \E i \in DOMAIN Log(r) : Log(r)[i].op = "update" /\ Log(r)[i].res = "ok"

\* C11: the settings of the row are minimal after every write, the
\* compensating write included; a write of an entity with settings leaves in
\* the row the proposed settings less the sentinel keys: the non-sentinel
\* values are kept.
SettingsMinimization ==
  /\ Minimal(Workflow.settings)
  /\ \A r \in Reqs :
       (Wrote(r) /\ call[r].proposed.settings # {}) =>
         \A v \in call[r].proposed.settings :
           /\ Workflow.settings.timezone = v.timezone \ {"DEFAULT"}
           /\ Workflow.settings.saveDataErrorExecution = v.saveDataErrorExecution \ {"DEFAULT"}
           /\ Workflow.settings.saveDataSuccessExecution = v.saveDataSuccessExecution \ {"DEFAULT"}
           /\ Workflow.settings.saveManualExecutions = v.saveManualExecutions \ {"DEFAULT"}
           /\ Workflow.settings.executionTimeout \subseteq v.executionTimeout

\* C11 witness: the compensating write was made for the settings
\* {timezone: "DEFAULT", executionTimeout: 300}.
SettingsMinimizationWitness ==
  \E r \in Reqs :
    /\ Has(r, CompensatingWrite)
    /\ call[r].proposed.settings =
         {[NoSettings EXCEPT !.timezone = {"DEFAULT"}, !.executionTimeout = {"300"}]}

\* ------------------------------------------------------- claims of getMany

\* The listing has been computed.
Listed == query.op = "getMany" /\ query.done

\* The decimal text of a workflow id.
IdText(n) ==
  CASE n = 0 -> "0" [] n = 1 -> "1" [] n = 2 -> "2" [] n = 3 -> "3" [] OTHER -> "4"

\* The filter id is none of the ids shared with the caller.
NotShared(id) ==
  \A n \in query.sharedWorkflowIds : id # JInt(n) /\ id # JStr(IdText(n))

\* The listing of the caller without any filter.
Unfiltered == {row \in query.store : row.id \in query.sharedWorkflowIds}

\* C12: a listing whose accepted filter names an id (integer or string) that
\* is not shared with the caller is empty, and no listing holds a workflow
\* whose id is not shared with the caller.
SharedIdSafeguard ==
  Listed =>
    /\ \A row \in query.out.rows : row.id \in query.sharedWorkflowIds
    /\ \A f \in query.out.filter : \A id \in f.id :
         NotShared(id) => query.out.rows = {}

\* C13 as stated: a raw filter that is not parseable makes every listing fail
\* with the filter-parse error.
FilterParseErrorAlways ==
  Listed /\ query.rawFilter.kind = "malformed" =>
    query.out.threw /\ query.out.error = FilterParseError

\* C13: a raw filter that is not parseable makes the listing fail with the
\* filter-parse error (status 500) when some workflow is shared with the
\* caller; a caller with no shared workflow gets the empty list, no error.
FilterParseErrorShared ==
  Listed /\ query.rawFilter.kind = "malformed" =>
    IF query.sharedWorkflowIds = {}
    THEN ~query.out.threw /\ query.out.rows = {}
    ELSE /\ query.out.threw
         /\ query.out.error = FilterParseError
         /\ query.out.error.httpStatusCode = 500
         /\ query.out.rows = {}

FilterParseErrorSharedWitness ==
  /\ Listed /\ query.rawFilter.kind = "malformed"
  /\ query.sharedWorkflowIds # {}
  /\ Unfiltered # {}
  /\ query.out.threw

\* The schema of the filter: id an integer or a string, name a string, active
\* a boolean.
Conforms(v) ==
  /\ v.t = "object"
  /\ \A x \in v.o.id : x.t = "integer" \/ x.t = "string"
  /\ \A x \in v.o.name : x.t = "string"
  /\ \A x \in v.o.active : x.t = "boolean"

\* The listing of a decodable filter: no error, no key outside the allow-list
\* in the query, and the unfiltered listing when the filter does not conform.
AllowListed ==
  /\ ~query.out.threw
  /\ \A f \in query.out.filter : f.evil = {}
  /\ ~Conforms(query.rawFilter.json) => query.out.rows = Unfiltered

\* C14: every key of a decodable filter other than id, name and active is
\* removed and never reaches the query, and a decodable filter that fails the
\* schema gives the unfiltered listing, never an error.
FilterAllowListAlways == Listed /\ query.rawFilter.kind = "json" => AllowListed

\* ---------------------------------------------------- claims of getSharing

Resolved == query.op = "getSharing" /\ query.done

OwnerAllowed == query.allowGlobalOwner /\ query.user.globalRole = "owner"

\* C16: getSharing returns a share row of the given workflow; the row belongs
\* to another user only when allowGlobalOwner is set and the user's global
\* role is owner; otherwise it is found exactly when the row of (user,
\* workflow) exists; when no row matches, not-found is returned as a value.
SharingResolver ==
  Resolved =>
    /\ query.found => query.row \in SharedWorkflow /\ query.row.workflow = query.workflow
    /\ query.found /\ query.row.user # query.user.id => OwnerAllowed
    /\ ~OwnerAllowed =>
         (query.found <=>
            [user |-> query.user.id, workflow |-> query.workflow] \in SharedWorkflow)
    /\ OwnerAllowed =>
         (query.found <=> \E s \in SharedWorkflow : s.workflow = query.workflow)
    /\ ~query.found => query.row = NoRow

SharingResolverWitness ==
  /\ Resolved /\ query.found
  /\ query.row.user # query.user.id
  /\ \E s \in SharedWorkflow : s.workflow # query.workflow

\* ---------------------------------------------- claims of tags and runtime

\* The position of a tag in a list without repetition.
Pos(s, x) == CHOOSE i \in DOMAIN s : s[i] = x

\* The list holds its tags in the order of the request.
InRequestOrder(s, requestOrder) ==
  \A i, j \in DOMAIN s :
    i < j => /\ s[i] \in SeqToSet(requestOrder)
             /\ s[j] \in SeqToSet(requestOrder)
             /\ Pos(requestOrder, s[i]) < Pos(requestOrder, s[j])

\* The tag association calls made after the reload.
TagWritesAfterReload(r) ==
  { i \in DOMAIN Log(r) :
      /\ Log(r)[i].op \in {"removeRelations", "createRelations"}
      /\ \E j \in 1..(i - 1) : Log(r)[j].op = "findOne" }

\* C15: the tags of the reloaded record are the persisted tags, each once;
\* when they and the requested list are both non-empty they are in the order
\* of the request; no association is written after the reload, so the
\* persisted rows are the ones that were read.
TagDisplayOrder ==
  \A r \in Reqs :
    call[r].updatedWorkflow.found /\ ~workflowTagsDisabled =>
      /\ \E tags \in call[r].updatedWorkflow.tags :
           /\ SeqToSet(tags) = WorkflowsTags
           /\ Len(tags) = Cardinality(WorkflowsTags)
           /\ Len(tags) > 0 /\ Len(requested(r)) > 0 =>
                InRequestOrder(tags, requested(r))
      /\ TagWritesAfterReload(r) = {}

\* C15 witness: a call that asked for the tags 2, 1 has returned them in that
\* order.
TagDisplayOrderWitness ==
  \E r \in Reqs :
    /\ call[r].pc = "returned"
    /\ ~workflowTagsDisabled
    /\ requested(r) = <<2, 1>>
    /\ call[r].updatedWorkflow.tags = {<<2, 1>>}
    /\ WorkflowsTags = {1, 2}

\* C19: a call on a workflow whose persisted flag was false before the call
\* makes no remove call; if its reloaded record is inactive it makes no add
\* call either, and the registration in the runtime is what it was.
InactiveUntouched ==
  \A r \in Reqs :
    call[r].pc # "idle" /\ ~call[r].before.active =>
      /\ Count(r, "remove") = 0
      /\ call[r].updatedWorkflow.found /\ ~ReloadedActive(r) =>
           /\ Count(r, "add") = 0
           /\ activeWorkflows = call[r].before.registered

\* C19 witness: a call on an inactive workflow has returned with the reloaded
\* record inactive.
InactiveUntouchedWitness ==
  \E r \in Reqs :
    /\ call[r].pc = "returned"
    /\ ~call[r].before.active
    /\ call[r].updatedWorkflow.found /\ ~ReloadedActive(r)
    /\ call[r].proposed.name = "Foo"

\* C18: the write made after a failed activation changes only the active flag
\* of the persisted workflow; the hash marker and every other persisted field
\* keep the value the main persistence write left.
CompensatingWriteFrame ==
  [][\A r \in Reqs :
       call[r].pc = "compensate" /\ call'[r].pc = "failed" =>
         /\ Workflow'.hash = Workflow.hash
         /\ Workflow'.settings = Workflow.settings]_vars

\* C17: when two calls on the workflow, whose collaborator calls all
\* succeeded, have both returned, the persisted active flag is true exactly
\* when the runtime holds the workflow registered.
ConcurrentUpdatesInSync ==
  (\A r \in Reqs : call[r].pc = "returned") => Workflow.active = activeWorkflows

\* ------------------------------------------------- claims of CrashJournal

\* The session's init is past the report.
Checked == journal.pc \notin {"stopped", "init", "report"}

\* The session's init has returned.
InitReturned(at) == at \in {"running", "removed"}

\* The session got as far as creating the file.
Created(at) == at \in {"close", "running", "removed"}

\* The session's cleanup removed the file.
Removed(at) == at = "removed"

\* An earlier session completed init and no cleanup ran since.
EarlierInitNoCleanup ==
  \E i \in DOMAIN journal.history :
    /\ InitReturned(journal.history[i].at)
    /\ \A j \in i..Len(journal.history) : ~Removed(journal.history[j].at)

\* An earlier session created or found the file and no cleanup ran since.
EarlierFileNoCleanup ==
  \E i \in DOMAIN journal.history :
    /\ Created(journal.history[i].at)
    /\ \A j \in i..Len(journal.history) : ~Removed(journal.history[j].at)

\* The previous session did init and then cleanup, and exited.
AfterCleanSession ==
  /\ journal.history # <<>>
  /\ journal.history[Len(journal.history)].end = "clean"

\* init reports and pauses exactly when the file exists at its check; the
\* file exists once init has returned and does not once cleanup has; a
\* session after a clean one does not report.
JournalCycle ==
  /\ Checked => journal.reported = journal.sawFile
  /\ Checked /\ journal.pc # "sleep" => journal.paused = journal.reported
  /\ journal.pc = "running" => journal.file
  /\ journal.pc = "removed" => ~journal.file
  /\ journal.pc = "stopped" /\ AfterCleanSession => ~journal.file
  /\ journal.pc # "stopped" /\ AfterCleanSession => ~journal.reported

\* C20 as stated: the file exists at the check of init exactly when an earlier
\* session completed init and no cleanup ran since.
JournalLifecycleCompleted ==
  /\ JournalCycle
  /\ Checked => (journal.sawFile <=> EarlierInitNoCleanup)

\* C20: init reports 'Last session crashed' and pauses exactly when the file
\* exists at its check, which is exactly when an earlier session got as far as
\* creating the file (its init returned, or it ended between the creation of
\* the file and the return of init) and no cleanup ran since; the file exists
\* after init returned and not after cleanup, and a session that follows a
\* clean session never reports.
JournalLifecycle ==
  /\ JournalCycle
  /\ Checked => (journal.sawFile <=> EarlierFileNoCleanup)

\* C20 witness: the first session died between the creation of the file and
\* the return of init; the second one reported, paused, and its init returned.
JournalLifecycleWitness ==
  /\ journal.history = <<[end |-> "crashed", at |-> "close"]>>
  /\ journal.pc = "running"
  /\ journal.reported /\ journal.paused

====
